---- MODULE Spec2Model ----
(***************************************************************************)
(* A model of wunderlog.py: the Wunderlog collector, which downloads       *)
(* Weather Underground history and forecasts and stores them as JSON       *)
(* files under <directory>/<location>/{daily,observations,forecast,        *)
(* forecast_hourly}/.  File existence is the only deduplication guard.     *)
(*                                                                         *)
(* The calendar is scaled down: an hour has MinPerHour minutes and a day   *)
(* HoursPerDay hours.  A timestamp is the tuple of its strftime fields     *)
(* (day, hour, minute); a file name is that tuple, its constant ".json"    *)
(* suffix left out, so that str.startswith is a prefix test on tuples.     *)
(***************************************************************************)
EXTENDS Integers, Sequences, FiniteSets, TLC

VARIABLES
    files,    \* [directory name -> set of [name, content]]: the files of loc_dir
    dirs,     \* the sub-directories of loc_dir that exist
    now,      \* the wall clock, in minutes since the UTC epoch of the model
    last,     \* the most recent call: operation, arguments, error raised, event log
    before,   \* files as they were when the most recent call started
    prev,     \* a summary of the call before the most recent one
    calls,    \* number of calls made so far
    procs     \* concurrent runs of the program: where each one is, and its locals

vars == <<files, dirs, now, last, before, prev, calls, procs>>

----------------------------------------------------------------------------
(* Bounds of the model *)

MinPerHour == 2
HoursPerDay == 2
MaxNow == 3
TzOffset == 2
MaxVal == 2
MaxObs == 2
MaxCalls == 2
MaxDays == 2
CollectSpan == 1
NumRuns == 2
MaxObsConc == 1
MaxNowConc == 2

MinPerDay == MinPerHour * HoursPerDay

----------------------------------------------------------------------------
(* Dates, formats and file names *)

\* date.today(): the local calendar day of the clock
Today(t) == (t + TzOffset) \div MinPerDay

\* day.strftime(DAY_FMT)
DayName(day) == <<day>>

\* now.strftime(DATE_FMT): date, hour, minute
DateStr(t) == <<t \div MinPerDay, (t % MinPerDay) \div MinPerHour, t % MinPerHour>>

\* now.strftime(HOURLY_FMT): DATE_FMT without its minute field
HourPrefix(t) == SubSeq(DateStr(t), 1, 2)

\* str.startswith
StartsWith(name, prefix) ==
    /\ Len(name) >= Len(prefix)
    /\ SubSeq(name, 1, Len(prefix)) = prefix

----------------------------------------------------------------------------
(* The file tree and the event log of one call *)

Dirs == {"daily", "observations", "forecast", "forecast_hourly"}

Names(fs, dir) == {f.name : f \in fs[dir]}

Content(fs, dir, name) == (CHOOSE f \in fs[dir] : f.name = name).content

\* An event of a call: a method entered, an API request sent, a file written, a
\* "have it already" line printed, an exception raised
Ev(e, what, name) == [ev |-> e, what |-> what, name |-> name]

\* The running state of a call: the tree, the events so far, the answers the
\* server gave, the exception raised
NoError == "none"

Start(fs, ds) == [files |-> fs, dirs |-> ds, log |-> <<>>, got |-> <<>>, err |-> NoError]

Emit(m, e) == [m EXCEPT !.log = Append(@, e)]

Raise(m, exc) == [Emit(m, Ev("raise", exc, <<>>)) EXCEPT !.err = exc]

\* ensure_dir_exists, run alone: the directory exists afterwards
EnsureDirExists(m, dir) == [m EXCEPT !.dirs = @ \cup {dir}]

\* os.path.exists(path)
PathExists(ds, dir) == dir \in ds

\* os.makedirs(path) with no except clause around it
MakeDirsUncaught(m, dir) ==
    IF dir \in m.dirs THEN Raise(m, "FileExistsError")
    ELSE [m EXCEPT !.dirs = @ \cup {dir}]

\* try: os.makedirs(path); except FileExistsError: pass.  The directory is made,
\* or it has appeared since the check and the exception is dropped ("raced").
MakeDirs(m, dir) ==
    IF dir \in m.dirs THEN Emit(m, Ev("raced", dir, <<>>))
    ELSE [m EXCEPT !.dirs = @ \cup {dir}]

\* a write that leaves a file that exists alone (open(fname, 'x'), error passed over)
WriteFileKeepFirst(m, dir, name, data) ==
    IF name \in Names(m.files, dir) THEN m
    ELSE Emit([m EXCEPT !.files[dir] = @ \cup {[name |-> name, content |-> data]}],
              Ev("write", dir, name))

\* open(fname, 'w'); json_dump(data, f): creates the file or replaces its content
WriteFile(m, dir, name, data) ==
    Emit([m EXCEPT !.files[dir] =
                {f \in @ : f.name # name} \cup {[name |-> name, content |-> data]}],
         Ev("write", dir, name))

----------------------------------------------------------------------------
(* The API.  A request is one call of api_request, that is one session.get;   *)
(* whether the CachedSession answers it from its cache is not modelled.       *)

Vals == 1..MaxVal

\* The date fields of an observation; hour HoursPerDay is out of range
ObsDates == {[day |-> 0, hour |-> h, min |-> 0] : h \in 0..HoursPerDay}

DateLists == UNION {[1..n -> ObsDates] : n \in 0..MaxObs}

\* An answer of the server: the HTTP status, whether the body carries
\* response.error, and the payload: history.dailysummary and history.observations,
\* or the forecast array (0: the body has none)
Response(status, error, dailysummary, observations, forecast) ==
    [status |-> status, error |-> error, dailysummary |-> dailysummary,
     observations |-> observations, forecast |-> forecast]

\* A history with one daily summary v and one observation per date of the list;
\* the k-th observation carries the reading v + k - 1
History(v, dates) ==
    Response("ok", FALSE, <<v>>,
             [k \in 1..Len(dates) |-> [date |-> dates[k], data |-> v + k - 1]], 0)

\* What the server can answer to a history request: an HTTP error status, a 200
\* with response.error set, a history without a daily summary, a history
HistoryResponses ==
    {Response("http_error", FALSE, <<>>, <<>>, 0),
     Response("ok", TRUE, <<>>, <<>>, 0),
     Response("ok", FALSE, <<>>, <<>>, 0)}
    \cup {History(v, dates) : v \in Vals, dates \in DateLists}

\* What the server can answer to a forecast request: an HTTP error status, a 200
\* with response.error set, a body without the forecast array, a forecast
ForecastResponses ==
    {Response("http_error", FALSE, <<>>, <<>>, 0),
     Response("ok", TRUE, <<>>, <<>>, 0)}
    \cup {Response("ok", FALSE, <<>>, <<>>, v) : v \in 0..MaxVal}

\* day.strftime('history_%Y%m%d')
HistoryKey(day) == [path |-> "history", day |-> <<day>>]

\* api_request without the check of response.error
ApiRequestNoErrorCheck(m, key, resp) ==
    LET sent == [Emit(m, Ev("request", key.path, key.day)) EXCEPT !.got = Append(@, resp)] IN
    IF resp.status # "ok" THEN Raise(sent, "HTTPError") ELSE sent

\* api_request: logs and sends the request, raises on an HTTP error status and on
\* a 200 whose body carries response.error
ApiRequest(m, key, resp) ==
    LET sent == [Emit(m, Ev("request", key.path, key.day)) EXCEPT !.got = Append(@, resp)] IN
    IF resp.status # "ok" THEN Raise(sent, "HTTPError")
    ELSE IF resp.error THEN Raise(sent, "ValueError")
    ELSE sent

----------------------------------------------------------------------------
(* get_day and get_history *)

\* parse_date: int() of each field, then datetime(), which rejects a field out of
\* range with ValueError
DateValid(date) ==
    /\ date.hour \in 0..(HoursPerDay - 1)
    /\ date.min \in 0..(MinPerHour - 1)

\* parse_date with hour and minute exchanged
ParseDateSwapped(date) == <<date.day, date.min, date.hour>>

ParseDate(date) == <<date.day, date.hour, date.min>>

\* get_day without its existence check
HaveDayNoGuard(fs, fname) == FALSE

\* daily_fname.exists()
HaveDay(fs, fname) == fname \in Names(fs, "daily")

\* the loop over history['observations']: one file per observation, named by the
\* observation's own date; the first date that does not parse ends the call
RECURSIVE SaveObservations(_, _)
SaveObservations(m, obs) ==
    IF obs = <<>> THEN m
    ELSE IF ~DateValid(Head(obs).date) THEN Raise(m, "ValueError")
    ELSE SaveObservations(
            WriteFile(m, "observations", ParseDate(Head(obs).date), Head(obs).data),
            Tail(obs))

\* get_day that saves the daily summary after the observations
GetDaySummaryLast(m, day, resp) ==
    LET m1 == EnsureDirExists(Emit(m, Ev("get_day", "", <<day>>)), "daily")
        daily_fname == DayName(day)
    IN  IF HaveDay(m1.files, daily_fname)
        THEN Emit(m1, Ev("have", "daily", daily_fname))
        ELSE LET m2 == ApiRequest(m1, HistoryKey(day), resp) IN
             IF m2.err # NoError THEN m2
             ELSE IF resp.dailysummary = <<>> THEN Raise(m2, "IndexError")
             ELSE LET m3 == SaveObservations(EnsureDirExists(m2, "observations"),
                                             resp.observations)
                  IN  IF m3.err # NoError THEN m3
                      ELSE WriteFile(m3, "daily", daily_fname, resp.dailysummary[1])

GetDay(m, day, resp) ==
    LET m1 == EnsureDirExists(Emit(m, Ev("get_day", "", <<day>>)), "daily")
        daily_fname == DayName(day)
    IN  IF HaveDay(m1.files, daily_fname)
        THEN Emit(m1, Ev("have", "daily", daily_fname))
        ELSE LET m2 == ApiRequest(m1, HistoryKey(day), resp) IN
             IF m2.err # NoError THEN m2
             ELSE IF resp.dailysummary = <<>> THEN Raise(m2, "IndexError")
             ELSE SaveObservations(
                     EnsureDirExists(
                         WriteFile(m2, "daily", daily_fname, resp.dailysummary[1]),
                         "observations"),
                     resp.observations)

\* every way get_day can end, one per answer of the server
GetDayAny(m, day) == {GetDay(m, day, resp) : resp \in HistoryResponses}

\* get_history whose loop index selects the day
RECURSIVE GetHistoryWalksBack(_, _, _)
GetHistoryWalksBack(m, today, max_days) ==
    IF max_days = 0 THEN {m}
    ELSE UNION {IF a.err # NoError THEN {a} ELSE GetHistoryWalksBack(a, today, max_days - 1) :
                a \in GetDayAny(m, today - max_days)}

\* get_history: max_days calls of get_day, every one for the day before today; an
\* exception ends the loop
RECURSIVE GetHistory(_, _, _)
GetHistory(m, today, max_days) ==
    IF max_days = 0 THEN {m}
    ELSE UNION {IF a.err # NoError THEN {a} ELSE GetHistory(a, today, max_days - 1) :
                a \in GetDayAny(m, today - 1)}

----------------------------------------------------------------------------
(* get_forecast *)

\* get_forecast whose last branch takes every other kind
AnyKind == {"daily", "hourly", "weekly"}

ForecastKinds == {"daily", "hourly"}

\* one directory for both kinds
ForecastDirShared(kind) == "forecast"

ForecastDir(kind) == IF kind = "daily" THEN "forecast" ELSE "forecast_hourly"

ForecastKey(kind) ==
    [path |-> IF kind = "daily" THEN "forecast10day" ELSE "hourly10day", day |-> <<>>]

\* a scan that compares whole names with the prefix
HaveHourExact(fs, dirname, hour_prefix) == hour_prefix \in Names(fs, dirname)

\* a scan that compares the date only
HaveHourSameDay(fs, dirname, hour_prefix) ==
    \E fname \in Names(fs, dirname) : StartsWith(fname, SubSeq(hour_prefix, 1, 1))

\* the scan of os.listdir(fcast_dir) for a name that starts with hour_prefix
HaveHour(fs, dirname, hour_prefix) ==
    \E fname \in Names(fs, dirname) : StartsWith(fname, hour_prefix)

GetForecast(m, kind, t, resp) ==
    LET m0 == Emit(m, Ev("get_forecast", kind, <<>>)) IN
    IF kind \notin ForecastKinds THEN Raise(m0, "ValueError")
    ELSE LET dirname == ForecastDir(kind)
             m1 == EnsureDirExists(m0, dirname)
             hour_prefix == HourPrefix(t)
         IN  IF HaveHour(m1.files, dirname, hour_prefix)
             THEN Emit(m1, Ev("have", dirname, hour_prefix))
             ELSE LET fname == DateStr(t)
                      m2 == ApiRequest(m1, ForecastKey(kind), resp)
                  IN  IF m2.err # NoError THEN m2
                      ELSE IF resp.forecast = 0 THEN Raise(m2, "KeyError")
                      ELSE WriteFile(m2, dirname, fname, resp.forecast)

\* every way get_forecast can end, one per answer of the server
GetForecastAny(m, kind, t) == {GetForecast(m, kind, t, resp) : resp \in ForecastResponses}

----------------------------------------------------------------------------
(* collect *)

\* collect that goes on after a failed get_day
CollectKeepsGoing(m, t0, t1, t2) ==
    UNION {UNION {IF b.err # NoError THEN {b} ELSE GetForecastAny(b, "hourly", t2) :
                  b \in GetForecastAny(a, "daily", t1)} :
           a \in GetDayAny(m, Today(t0) - 1)}

\* get_day(), get_forecast('daily'), get_forecast('hourly'); an exception of one
\* step ends the call.  t0, t1, t2 are the clock readings of the three steps.
Collect(m, t0, t1, t2) ==
    UNION {IF a.err # NoError THEN {a}
           ELSE UNION {IF b.err # NoError THEN {b} ELSE GetForecastAny(b, "hourly", t2) :
                       b \in GetForecastAny(a, "daily", t1)} :
           a \in GetDayAny(m, Today(t0) - 1)}

----------------------------------------------------------------------------
(* The calls a user of the class makes, one after the other *)

\* the days get_day is asked for: the yesterdays of the clock's range
Days == (-1)..(Today(MaxNow) - 1)

KindArgs == ForecastKinds \cup {"weekly"}

NoDay == -2

Requests(log) == SelectSeq(log, LAMBDA e : e.ev = "request")

Writes(log) == SelectSeq(log, LAMBDA e : e.ev = "write")

Haves(log) == SelectSeq(log, LAMBDA e : e.ev = "have")

Summary(l) ==
    [op |-> l.op, day |-> l.day, kind |-> l.kind, hour |-> HourPrefix(l.at[1]),
     err |-> l.err,
     nreq |-> Len(Requests(l.log)), nwrite |-> Len(Writes(l.log)),
     nhave |-> Len(Haves(l.log))]

\* the concurrent runs of the program, and a run that has not started: no
\* directory being made, no day, clock reading, kind or observation index yet
Runs == 1..NumRuns

Run0 == [pc |-> "init", dir |-> "", ret |-> "", day |-> NoDay, t |-> 0, kind |-> "",
         k |-> 0, log |-> <<>>, got |-> <<>>, err |-> NoError]

NoCall == [op |-> "none", day |-> NoDay, kind |-> "", at |-> <<0>>,
           err |-> NoError, log |-> <<>>, got |-> <<>>]

Init ==
    /\ files = [d \in Dirs |-> {}]
    /\ dirs = {}
    /\ now = 0
    /\ last = NoCall
    /\ before = [files |-> [d \in Dirs |-> {}], dirs |-> {}]
    /\ prev = Summary(NoCall)
    /\ calls = 0
    /\ procs = [self \in Runs |-> Run0]

\* the call ended (returned or raised) in m
Finish(op, day, kind, at, m) ==
    /\ files' = m.files
    /\ dirs' = m.dirs
    /\ last' = [op |-> op, day |-> day, kind |-> kind, at |-> at,
                err |-> m.err, log |-> m.log, got |-> m.got]
    /\ before' = [files |-> files, dirs |-> dirs]
    /\ prev' = Summary(last)
    /\ calls' = calls + 1
    /\ UNCHANGED procs

\* time passes between calls
Tick ==
    /\ now < MaxNow
    /\ now' = now + 1
    /\ UNCHANGED <<files, dirs, last, before, prev, calls, procs>>

\* W.get_day(day); day=None is the day before Today(now), which is in Days
CallGetDay ==
    /\ calls < MaxCalls
    /\ \E day \in Days : \E m \in GetDayAny(Start(files, dirs), day) :
          Finish("get_day", day, "", <<now>>, m)
    /\ UNCHANGED now

\* W.get_history(max_days)
CallGetHistory ==
    /\ calls < MaxCalls
    /\ \E max_days \in 0..MaxDays :
       \E m \in GetHistory(Start(files, dirs), Today(now), max_days) :
          Finish("get_history", Today(now) - 1, "", <<now, max_days>>, m)
    /\ UNCHANGED now

\* W.get_forecast(kind)
CallGetForecast ==
    /\ calls < MaxCalls
    /\ \E kind \in KindArgs : \E m \in GetForecastAny(Start(files, dirs), kind, now) :
          Finish("get_forecast", NoDay, kind, <<now>>, m)
    /\ UNCHANGED now

\* the clock readings a call that started at t can make later on
Later(t) == {u \in t..MaxNow : u <= t + CollectSpan}

\* W.collect(); the clock may move on between its steps
CallCollect ==
    /\ calls < MaxCalls
    /\ \E t1 \in Later(now) : \E t2 \in {u \in Later(now) : u >= t1} :
       \E m \in Collect(Start(files, dirs), now, t1, t2) :
          /\ Finish("collect", Today(now) - 1, "", <<now, t1, t2>>, m)
          /\ now' = t2

Next == Tick \/ CallGetDay \/ CallGetHistory \/ CallGetForecast \/ CallCollect

Spec == Init /\ [][Next]_vars

----------------------------------------------------------------------------
(* Concurrent runs.  Each run constructs a Wunderlog and calls collect(), as   *)
(* the command line does, against the same storage directory.  A step is one  *)
(* access to what the runs share: the file system, the clock, the API.        *)

\* what the server answers to a history request of a concurrent run
ConcHistoryResponses == {r \in HistoryResponses : Len(r.observations) <= MaxObsConc}

\* time passes while the runs are at work
TickConc ==
    /\ now < MaxNowConc
    /\ Tick

\* the call record a step starts from: the shared tree, and the log and the
\* answers of the method the run is in
StepFrom(loc) ==
    [files |-> files, dirs |-> dirs, log |-> loc.log, got |-> loc.got, err |-> NoError]

StepOf(self) == StepFrom(procs[self])

\* the locals of a method just entered: those of the method that returned are gone
Enter(kind) == [Run0 EXCEPT !.kind = kind]

\* a step of a run ended in m with the locals loc; an exception ends the run
Commit(self, m, loc) ==
    /\ files' = m.files
    /\ dirs' = m.dirs
    /\ procs' = [procs EXCEPT ![self] =
                    [loc EXCEPT !.log = m.log, !.got = m.got, !.err = m.err,
                                !.pc = IF m.err # NoError THEN "failed" ELSE loc.pc]]
    /\ UNCHANGED <<now, last, before, prev, calls>>

\* ensure_dir_exists(path), its first statement: return to ret when the path
\* exists, else go on to makedirs
CallEnsure(self, loc, dir, ret) ==
    Commit(self, StepFrom(loc),
           [loc EXCEPT !.dir = dir, !.ret = ret,
                       !.pc = IF PathExists(dirs, dir) THEN ret ELSE "makedirs"])

\* ensure_dir_exists, its else branch
EnsureMake(self) ==
    /\ procs[self].pc = "makedirs"
    /\ Commit(self, MakeDirs(StepOf(self), procs[self].dir),
              [procs[self] EXCEPT !.pc = procs[self].ret])

\* Wunderlog(location): ensure_dir_exists(self.loc_dir); then collect() starts
Construct(self) ==
    /\ procs[self].pc = "init"
    /\ CallEnsure(self, procs[self], "loc", "get_day")

\* get_day(): ensure_dir_exists(daily_dir)
GetDayEnter(self) ==
    /\ procs[self].pc = "get_day"
    /\ CallEnsure(self, Enter(""), "daily", "today")

\* day = date.today() - timedelta(days=1)
GetDayToday(self) ==
    /\ procs[self].pc = "today"
    /\ Commit(self, StepOf(self),
              [procs[self] EXCEPT !.day = Today(now) - 1, !.pc = "day_exists"])

\* if daily_fname.exists(): print, return
GetDayExists(self) ==
    /\ procs[self].pc = "day_exists"
    /\ LET daily_fname == DayName(procs[self].day) IN
       IF HaveDay(files, daily_fname)
       THEN Commit(self, Emit(StepOf(self), Ev("have", "daily", daily_fname)),
                   [procs[self] EXCEPT !.kind = "daily", !.pc = "get_forecast"])
       ELSE Commit(self, StepOf(self), [procs[self] EXCEPT !.pc = "history_request"])

\* history = api_request(...)['history']; dailysummary = history['dailysummary'][0]
HistoryRequest(self) ==
    /\ procs[self].pc = "history_request"
    /\ \E resp \in ConcHistoryResponses :
          LET m == ApiRequest(StepOf(self), HistoryKey(procs[self].day), resp) IN
          Commit(self,
                 IF m.err = NoError /\ resp.dailysummary = <<>>
                 THEN Raise(m, "IndexError") ELSE m,
                 [procs[self] EXCEPT !.pc = "write_daily"])

\* with open(daily_fname, 'w') as f: json_dump(dailysummary, f)
WriteDaily(self) ==
    /\ procs[self].pc = "write_daily"
    /\ LET resp == procs[self].got[Len(procs[self].got)] IN
       Commit(self,
              WriteFile(StepOf(self), "daily", DayName(procs[self].day),
                        resp.dailysummary[1]),
              [procs[self] EXCEPT !.pc = "obs_dir"])

\* ensure_dir_exists(obs_dir)
ObsDirEnter(self) ==
    /\ procs[self].pc = "obs_dir"
    /\ CallEnsure(self, procs[self], "observations", "observation")

\* one round of the loop over history['observations'], or its end, which is the
\* end of get_day: collect goes on with get_forecast('daily')
SaveObservation(self) ==
    /\ procs[self].pc = "observation"
    /\ LET obs == procs[self].got[Len(procs[self].got)].observations
           k == procs[self].k + 1
       IN  IF k > Len(obs)
           THEN Commit(self, StepOf(self),
                       [procs[self] EXCEPT !.kind = "daily", !.pc = "get_forecast"])
           ELSE IF ~DateValid(obs[k].date)
           THEN Commit(self, Raise(StepOf(self), "ValueError"), procs[self])
           ELSE Commit(self,
                       WriteFile(StepOf(self), "observations", ParseDate(obs[k].date),
                                 obs[k].data),
                       [procs[self] EXCEPT !.k = k])

\* get_forecast(kind): ensure_dir_exists(fcast_dir)
GetForecastEnter(self) ==
    /\ procs[self].pc = "get_forecast"
    /\ CallEnsure(self, Enter(procs[self].kind), ForecastDir(procs[self].kind), "utcnow")

\* now = utcnow()
GetForecastNow(self) ==
    /\ procs[self].pc = "utcnow"
    /\ Commit(self, StepOf(self), [procs[self] EXCEPT !.t = now, !.pc = "listdir"])

\* where a run goes when get_forecast(kind) returns: collect calls
\* get_forecast('hourly') after get_forecast('daily'), and ends after that
AfterForecast(loc) ==
    IF loc.kind = "daily" THEN [loc EXCEPT !.kind = "hourly", !.pc = "get_forecast"]
    ELSE [loc EXCEPT !.pc = "done"]

\* the scan of os.listdir(fcast_dir)
GetForecastScan(self) ==
    /\ procs[self].pc = "listdir"
    /\ LET dirname == ForecastDir(procs[self].kind)
           hour_prefix == HourPrefix(procs[self].t)
       IN  IF HaveHour(files, dirname, hour_prefix)
           THEN Commit(self, Emit(StepOf(self), Ev("have", dirname, hour_prefix)),
                       AfterForecast(procs[self]))
           ELSE Commit(self, StepOf(self), [procs[self] EXCEPT !.pc = "forecast_request"])

\* r = api_request(key); fcast = extract(r)
ForecastRequest(self) ==
    /\ procs[self].pc = "forecast_request"
    /\ \E resp \in ForecastResponses :
          LET m == ApiRequest(StepOf(self), ForecastKey(procs[self].kind), resp) IN
          Commit(self,
                 IF m.err = NoError /\ resp.forecast = 0 THEN Raise(m, "KeyError") ELSE m,
                 [procs[self] EXCEPT !.pc = "write_forecast"])

\* with fname.open('w') as f: json_dump(fcast, f)
WriteForecast(self) ==
    /\ procs[self].pc = "write_forecast"
    /\ Commit(self,
              WriteFile(StepOf(self), ForecastDir(procs[self].kind),
                        DateStr(procs[self].t),
                        procs[self].got[Len(procs[self].got)].forecast),
              AfterForecast(procs[self]))

RunStep(self) ==
    \/ Construct(self)
    \/ EnsureMake(self)
    \/ GetDayEnter(self)
    \/ GetDayToday(self)
    \/ GetDayExists(self)
    \/ HistoryRequest(self)
    \/ WriteDaily(self)
    \/ ObsDirEnter(self)
    \/ SaveObservation(self)
    \/ GetForecastEnter(self)
    \/ GetForecastNow(self)
    \/ GetForecastScan(self)
    \/ ForecastRequest(self)
    \/ WriteForecast(self)

NextConc == TickConc \/ \E self \in Runs : RunStep(self)

SpecConc == Init /\ [][NextConc]_vars

----------------------------------------------------------------------------
(* Properties *)

\* the snapshots of a forecast directory taken in the clock hour of t
InHour(fs, dir, t) ==
    {f \in fs[dir] : SubSeq(f.name, 1, 2) = <<t \div MinPerDay, (t % MinPerDay) \div MinPerHour>>}

SnapshotDir(kind) == IF kind = "daily" THEN "forecast" ELSE "forecast_hourly"

\* event e of a log is a request for path/name, a write of dir/name
IsRequest(e, path, name) == e.ev = "request" /\ e.what = path /\ e.name = name

IsWrite(e, dir, name) == e.ev = "write" /\ e.what = dir /\ e.name = name

\* the server's answer is a 200 whose body carries response.error
ApiError(r) == r.status = "ok" /\ r.error

\* C1: a get_day(D) that finds daily/<D>.json sends no request and leaves the
\* tree as it was; and no call of any kind requests the history of a day whose
\* daily file exists, writes that file again, or changes or removes it.
C1_DailyFileNeverRefetched ==
    /\ (last.op = "get_day" /\ <<last.day>> \in Names(before.files, "daily"))
          => (Requests(last.log) = <<>> /\ files = before.files)
    /\ \A f \in before.files["daily"] :
          /\ f \in files["daily"]
          /\ \A i \in 1..Len(last.log) :
                /\ ~IsRequest(last.log[i], "history", f.name)
                /\ ~IsWrite(last.log[i], "daily", f.name)

C1_Witness ==
    /\ last.op = "get_day"
    /\ <<last.day>> \in Names(before.files, "daily")
    /\ Haves(last.log) # <<>>

\* C2: a get_forecast(kind) that finds in the kind's directory a snapshot of the
\* current clock hour sends no request and writes no file.
C2_ForecastSkippedWithinHour ==
    (/\ last.op = "get_forecast"
     /\ last.kind \in {"daily", "hourly"}
     /\ InHour(before.files, SnapshotDir(last.kind), last.at[1]) # {})
    => (/\ Requests(last.log) = <<>>
        /\ Writes(last.log) = <<>>
        /\ files = before.files)

C2_Witness ==
    /\ last.op = "get_forecast"
    /\ last.kind = "hourly"
    /\ InHour(before.files, "forecast_hourly", last.at[1]) # {}
    /\ Haves(last.log) # <<>>

\* two get_forecast calls in a row, of the same kind and in the same clock hour
TwoFetchesInHour ==
    /\ prev.op = "get_forecast" /\ last.op = "get_forecast"
    /\ prev.kind = last.kind /\ last.kind \in {"daily", "hourly"}
    /\ prev.hour = HourPrefix(last.at[1])

\* every forecast directory holds at most one snapshot per clock hour
OnePerHour ==
    \A dir \in {"forecast", "forecast_hourly"} : \A f, g \in files[dir] :
        SubSeq(f.name, 1, 2) = SubSeq(g.name, 1, 2) => f = g

\* C3 as stated: at most one snapshot per directory and hour, and two fetches of a
\* kind within one clock hour leave exactly one snapshot of that hour.
C3_ExactlyOneAfterTwoFetches ==
    /\ OnePerHour
    /\ TwoFetchesInHour =>
          Cardinality(InHour(files, SnapshotDir(last.kind), last.at[1])) = 1

\* C3, amended: at most one snapshot per directory and hour in every state; two
\* fetches of a kind within one clock hour leave exactly one snapshot of that hour
\* unless both calls fail, and then they leave none.
C3_OneSnapshotPerHour ==
    /\ OnePerHour
    /\ TwoFetchesInHour =>
          Cardinality(InHour(files, SnapshotDir(last.kind), last.at[1]))
             = IF prev.err # NoError /\ last.err # NoError THEN 0 ELSE 1

C3_Witness ==
    /\ TwoFetchesInHour
    /\ prev.nwrite = 1
    /\ Haves(last.log) # <<>>
    /\ Cardinality(InHour(files, SnapshotDir(last.kind), last.at[1])) = 1

\* two get_day calls in a row for the same day
TwoGetDays ==
    /\ prev.op = "get_day" /\ last.op = "get_day"
    /\ prev.day = last.day

\* C4 as stated: two get_day calls in a row for the same day send exactly one
\* request between them.
C4_ExactlyOneRequest ==
    TwoGetDays => prev.nreq + Len(Requests(last.log)) = 1

\* C4, amended: two get_day calls in a row for the same day send no request when
\* the daily file was there before the first, one when the first call stores the
\* daily file, and two when the first call fails before it stores the file.
C4_OneRequestWhenFirstStores ==
    TwoGetDays =>
        prev.nreq + Len(Requests(last.log))
           = IF prev.nhave > 0 THEN 0 ELSE IF prev.nwrite > 0 THEN 1 ELSE 2

C4_Witness ==
    /\ TwoGetDays
    /\ prev.nreq = 1 /\ prev.nwrite > 0
    /\ Requests(last.log) = <<>>

\* C5: when the server answers 200 with response.error set, the get_day or
\* get_forecast call that asked ends in ValueError and the tree is as before.
C5_ApiErrorWritesNothing ==
    (/\ last.op \in {"get_day", "get_forecast"}
     /\ last.got # <<>>
     /\ ApiError(last.got[Len(last.got)]))
    => (/\ last.err = "ValueError"
        /\ Writes(last.log) = <<>>
        /\ files = before.files)

C5_Witness ==
    /\ last.op = "get_day"
    /\ last.got # <<>> /\ ApiError(last.got[1])
    /\ before.files["daily"] # {}
    /\ last.err = "ValueError"

\* C6: get_forecast with a kind other than 'daily' and 'hourly' raises ValueError
\* at once: no request, no directory, no file.
C6_UnknownKindRejected ==
    (last.op = "get_forecast" /\ last.kind \notin {"daily", "hourly"})
    => (/\ last.err = "ValueError"
        /\ Requests(last.log) = <<>>
        /\ Writes(last.log) = <<>>
        /\ files = before.files
        /\ dirs = before.dirs)

C6_Witness ==
    /\ last.op = "get_forecast"
    /\ last.kind = "weekly"
    /\ last.err = "ValueError"
    /\ "forecast" \notin dirs

\* the methods a call entered, in order
Steps(log) == SelectSeq(log, LAMBDA e : e.ev \in {"get_day", "get_forecast"})

CollectSteps(day) ==
    <<Ev("get_day", "", <<day>>), Ev("get_forecast", "daily", <<>>),
      Ev("get_forecast", "hourly", <<>>)>>

\* C7: collect enters get_day(yesterday), get_forecast('daily') and
\* get_forecast('hourly') in this order; it enters all three when none raises;
\* an exception is the last event of the call, so that no later step runs, no
\* later request is sent and no later file is written; what the call wrote
\* before is on disk afterwards.
C7_CollectInOrderAndAborts ==
    last.op = "collect" =>
        LET steps == Steps(last.log)
            n == Len(last.log)
        IN  /\ Len(steps) \in 1..3
            /\ steps = SubSeq(CollectSteps(Today(last.at[1]) - 1), 1, Len(steps))
            /\ last.err = NoError => Len(steps) = 3
            /\ \A i \in 1..n : last.log[i].ev = "raise" => i = n
            /\ last.err # NoError => last.log[n].ev = "raise"
            /\ \A i \in 1..n : last.log[i].ev = "write" =>
                  last.log[i].name \in Names(files, last.log[i].what)

C7_Witness ==
    /\ last.op = "collect"
    /\ last.err # NoError
    /\ Len(Steps(last.log)) = 2
    /\ Writes(last.log) # <<>>
    /\ files["daily"] # before.files["daily"]

\* C8 as stated: no call removes a file or changes the content of a file.
C8_NoFileEverChanges ==
    \A dir \in Dirs : before.files[dir] \subseteq files[dir]

\* C8, amended: no call removes a file; no call changes or rewrites a daily
\* summary file or a forecast snapshot file; an observation file changes only
\* when the call writes an observation of the same minute timestamp.
C8_FilesKeptObservationsRewritten ==
    /\ \A dir \in Dirs : Names(before.files, dir) \subseteq Names(files, dir)
    /\ \A dir \in {"daily", "forecast", "forecast_hourly"} : \A f \in before.files[dir] :
          /\ f \in files[dir]
          /\ \A i \in 1..Len(last.log) : ~IsWrite(last.log[i], dir, f.name)
    /\ \A f \in before.files["observations"] :
          \/ f \in files["observations"]
          \/ \E i \in 1..Len(last.log) : IsWrite(last.log[i], "observations", f.name)

C8_Witness ==
    /\ before.files["daily"] # {}
    /\ before.files["forecast"] # {}
    /\ files["daily"] # before.files["daily"]
    /\ \E f \in before.files["observations"] : f \notin files["observations"]

\* the server's answer carries a forecast
ForecastOk(r) == r.status = "ok" /\ ~r.error /\ r.forecast # 0

\* C9: a get_forecast(kind) that finds no snapshot of the current clock hour in
\* the kind's directory sends one request, for the kind's key; when the answer
\* carries a forecast the call adds one file, named by the clock's date, hour and
\* minute and holding the forecast; the snapshots of earlier hours all stay.
C9_NewSnapshotAfterRollover ==
    (/\ last.op = "get_forecast"
     /\ last.kind \in {"daily", "hourly"}
     /\ InHour(before.files, SnapshotDir(last.kind), last.at[1]) = {})
    => LET dir == SnapshotDir(last.kind)
           t == last.at[1]
           stamp == <<t \div MinPerDay, (t % MinPerDay) \div MinPerHour, t % MinPerHour>>
       IN  /\ Len(Requests(last.log)) = 1
           /\ Len(last.got) = 1
           /\ IsRequest(Requests(last.log)[1],
                        IF last.kind = "daily" THEN "forecast10day" ELSE "hourly10day",
                        <<>>)
           /\ before.files[dir] \subseteq files[dir]
           /\ IF ForecastOk(last.got[1])
              THEN files = [before.files EXCEPT ![dir] =
                                @ \cup {[name |-> stamp, content |-> last.got[1].forecast]}]
              ELSE files = before.files

C9_Witness ==
    /\ last.op = "get_forecast"
    /\ last.kind = "daily"
    /\ before.files["forecast"] # {}
    /\ InHour(before.files, "forecast", last.at[1]) = {}
    /\ Cardinality(files["forecast"]) = 2

\* the minute timestamp an observation carries in its own date fields
StampOf(o) == <<o.date.day, o.date.hour, o.date.min>>

\* the observations of the answer, as the files get_day is to make of them
ObsFiles(r) ==
    {[name |-> StampOf(r.observations[k]), content |-> r.observations[k].data] :
        k \in 1..Len(r.observations)}

NumFiles(fs) == Cardinality(fs["daily"]) + Cardinality(fs["observations"])

\* the last call is a get_day(D) that found no daily/<D>.json, raised nothing, and
\* got a history whose observations have pairwise distinct minute timestamps
FirstGetDay ==
    /\ last.op = "get_day"
    /\ <<last.day>> \notin Names(before.files, "daily")
    /\ last.err = NoError
    /\ Len(last.got) = 1
    /\ Len(last.got[1].dailysummary) = 1
    /\ \A j, k \in 1..Len(last.got[1].observations) :
          j # k => StampOf(last.got[1].observations[j]) # StampOf(last.got[1].observations[k])

\* C10 as stated: such a call sends one request and makes 1 + n new files, the
\* daily file and one observation file per observation, named by its timestamp.
C10_OnePlusNNewFiles ==
    FirstGetDay =>
        LET r == last.got[1] IN
        /\ Len(Requests(last.log)) = 1
        /\ IsRequest(Requests(last.log)[1], "history", <<last.day>>)
        /\ [name |-> <<last.day>>, content |-> r.dailysummary[1]] \in files["daily"]
        /\ ObsFiles(r) \subseteq files["observations"]
        /\ NumFiles(files) = NumFiles(before.files) + 1 + Len(r.observations)

\* C10, amended: such a call sends one request, for the history of D, adds
\* daily/<D>.json with the daily summary and writes one observation file per
\* observation, named by the observation's own timestamp; it touches no other
\* file.  A timestamp stored before is rewritten, so the new files are 1 + the
\* number of timestamps not stored before: 1 + n when none was.
C10_DailyAndObservationFiles ==
    FirstGetDay =>
        LET r == last.got[1]
            stamps == {f.name : f \in ObsFiles(r)}
        IN  /\ Len(Requests(last.log)) = 1
            /\ IsRequest(Requests(last.log)[1], "history", <<last.day>>)
            /\ files = [before.files EXCEPT
                  !["daily"] = @ \cup {[name |-> <<last.day>>, content |-> r.dailysummary[1]]},
                  !["observations"] = {f \in @ : f.name \notin stamps} \cup ObsFiles(r)]
            /\ Len(Writes(last.log)) = 1 + Len(r.observations)
            /\ NumFiles(files) = NumFiles(before.files) + 1
                  + Cardinality(stamps \ Names(before.files, "observations"))
            /\ (stamps \cap Names(before.files, "observations") = {}
                  => NumFiles(files) = NumFiles(before.files) + 1 + Len(r.observations))

C10_Witness ==
    /\ FirstGetDay
    /\ before.files["daily"] # {}
    /\ Len(last.got[1].observations) = 2
    /\ NumFiles(files) = NumFiles(before.files) + 3

HistoryGot ==
    /\ Requests(last.log) # <<>>
    /\ Requests(last.log)[1].what = "history"
    /\ last.got[1].status = "ok" /\ ~last.got[1].error
    /\ last.got[1].dailysummary # <<>>

\* the observations get_day gets through: those before the first whose date
\* fields are out of range
Processed(obs) ==
    LET ok(k) == /\ obs[k].date.hour >= 0 /\ obs[k].date.hour < HoursPerDay
                 /\ obs[k].date.min >= 0 /\ obs[k].date.min < MinPerHour
        n == CHOOSE n \in 0..Len(obs) :
                /\ \A k \in 1..n : ok(k)
                /\ n = Len(obs) \/ ~ok(n + 1)
    IN  SubSeq(obs, 1, n)

\* C12: after a call that went through observations, every minute timestamp among
\* them has one file, which holds the reading of the last observation with that
\* timestamp; the observation files are those there before plus one per new
\* timestamp, and the files of other timestamps are as before.
C12_LastObservationWins ==
    HistoryGot =>
        LET obs == Processed(last.got[1].observations)
            stamps == {StampOf(obs[k]) : k \in 1..Len(obs)}
            lastOf(s) == CHOOSE k \in 1..Len(obs) :
                            /\ StampOf(obs[k]) = s
                            /\ \A j \in (k + 1)..Len(obs) : StampOf(obs[j]) # s
        IN  /\ \A s \in stamps :
                  [name |-> s, content |-> obs[lastOf(s)].data] \in files["observations"]
            /\ Names(files, "observations") = Names(before.files, "observations") \cup stamps
            /\ Cardinality(files["observations"]) = Cardinality(Names(files, "observations"))
            /\ \A f \in before.files["observations"] :
                  f.name \notin stamps => f \in files["observations"]

C12_Witness ==
    /\ HistoryGot
    /\ last.op = "get_day"
    /\ LET obs == last.got[1].observations IN
       /\ Len(obs) = 2
       /\ StampOf(obs[1]) = StampOf(obs[2])
       /\ obs[1].data # obs[2].data
       /\ [name |-> StampOf(obs[2]), content |-> obs[2].data] \in files["observations"]
       /\ \E f \in before.files["observations"] :
             f.name = StampOf(obs[2]) /\ f.content # obs[2].data
    /\ Cardinality(files["observations"]) = 1

\* C14: a get_day(D) that fails on an observation has stored daily/<D>.json first,
\* then the observations before the failing one, and nothing after it; all of it
\* stays.  A get_day(D) that follows such a call finds the daily file, sends no
\* request and writes nothing, so the rest of the observations is not stored.
C14_NoCleanupAfterFailedObservation ==
    /\ (last.op = "get_day" /\ HistoryGot /\ last.err # NoError) =>
          LET r == last.got[1]
              obs == Processed(r.observations)
              w == Writes(last.log)
          IN  /\ last.err = "ValueError"
              /\ Len(obs) < Len(r.observations)
              /\ Len(w) = 1 + Len(obs)
              /\ IsWrite(w[1], "daily", <<last.day>>)
              /\ \A k \in 1..Len(obs) : IsWrite(w[k + 1], "observations", StampOf(obs[k]))
              /\ [name |-> <<last.day>>, content |-> r.dailysummary[1]] \in files["daily"]
              /\ \A k \in 1..Len(obs) : StampOf(obs[k]) \in Names(files, "observations")
    /\ (TwoGetDays /\ prev.err = "ValueError" /\ prev.nwrite > 0) =>
          /\ <<last.day>> \in Names(before.files, "daily")
          /\ Requests(last.log) = <<>>
          /\ Writes(last.log) = <<>>
          /\ last.err = NoError
          /\ files = before.files

C14_Witness ==
    /\ TwoGetDays
    /\ prev.err = "ValueError" /\ prev.nwrite = 2
    /\ Haves(last.log) # <<>>
    /\ Cardinality(files["observations"]) = 1

\* C15: get_forecast(kind) touches the directory of its kind only and sends its
\* request exactly when that directory has no snapshot of the current hour,
\* whatever the other directories hold; get_day touches daily/ and observations/
\* only and sends its request exactly when daily/ has no file of the day.
C15_GuardsIndependent ==
    /\ (last.op = "get_forecast" /\ last.kind \in {"daily", "hourly"}) =>
          LET dir == SnapshotDir(last.kind) IN
          /\ \A d \in Dirs \ {dir} : files[d] = before.files[d]
          /\ dirs = before.dirs \cup {dir}
          /\ \A i \in 1..Len(last.log) :
                last.log[i].ev \in {"write", "have"} => last.log[i].what = dir
          /\ Requests(last.log) # <<>> <=> InHour(before.files, dir, last.at[1]) = {}
    /\ last.op = "get_day" =>
          /\ \A d \in {"forecast", "forecast_hourly"} : files[d] = before.files[d]
          /\ dirs \subseteq before.dirs \cup {"daily", "observations"}
          /\ \A i \in 1..Len(last.log) :
                last.log[i].ev \in {"write", "have"} =>
                   last.log[i].what \in {"daily", "observations"}
          /\ Requests(last.log) # <<>> <=> <<last.day>> \notin Names(before.files, "daily")

C15_Witness ==
    /\ last.op = "get_forecast"
    /\ last.kind = "hourly"
    /\ before.files["daily"] # {}
    /\ InHour(before.files, "forecast", last.at[1]) # {}
    /\ Requests(last.log) # <<>>
    /\ files["forecast_hourly"] # {}
    /\ files["forecast"] = before.files["forecast"]

\* two collect calls in a row, the first ended without an exception, the second
\* for the same local day, with every clock reading of both in one UTC hour
\* (the clock does not go back, so the first reading of the first call and the
\* last reading of the second bound all of them)
TwoCollectsInHour ==
    /\ prev.op = "collect" /\ last.op = "collect"
    /\ prev.err = NoError
    /\ prev.day = last.day
    /\ prev.hour = HourPrefix(last.at[3])

\* C16: such a second collect sends no request and leaves the tree as it was.
C16_CollectIdempotentWithinHour ==
    TwoCollectsInHour =>
        /\ Requests(last.log) = <<>>
        /\ Writes(last.log) = <<>>
        /\ last.err = NoError
        /\ files = before.files
        /\ dirs = before.dirs

C16_Witness ==
    /\ TwoCollectsInHour
    /\ prev.nwrite >= 3
    /\ last.at[1] # last.at[3]
    /\ Len(Haves(last.log)) = 3

----------------------------------------------------------------------------
(* Properties of concurrent runs *)

\* the runs that are inside get_day for one day, have sent the history request
\* and have written the daily file
FetchedDay(day) ==
    {p \in Runs :
        /\ procs[p].day = day
        /\ \E i \in 1..Len(procs[p].log) : IsRequest(procs[p].log[i], "history", <<day>>)
        /\ \E i \in 1..Len(procs[p].log) : IsWrite(procs[p].log[i], "daily", <<day>>)}

\* the run writes the file its check was about in this step
WritesChecked(p) ==
    /\ procs[p].pc \in {"write_daily", "write_forecast"}
    /\ procs'[p].pc # procs[p].pc

\* C13: nothing makes the existence check and the write one step.  A run that has
\* passed the check goes on whatever the other runs have done in between: it sends
\* its request, and its write puts its own data in the file, although the file
\* may have appeared since.
\* So the same day is fetched and written by more than one run, and a forecast
\* directory comes to hold several snapshots of one hour (see C13_Witness).
C13_CheckThenWriteNotAtomic ==
    [][\A p \in Runs :
          /\ (procs[p].pc = "history_request" /\ procs'[p].pc # "history_request") =>
                /\ Len(Requests(procs'[p].log)) = Len(Requests(procs[p].log)) + 1
                /\ IsRequest(procs'[p].log[Len(procs[p].log) + 1], "history",
                             <<procs[p].day>>)
          /\ (procs[p].pc = "forecast_request" /\ procs'[p].pc # "forecast_request") =>
                Len(Requests(procs'[p].log)) = Len(Requests(procs[p].log)) + 1
          /\ (WritesChecked(p) /\ procs[p].pc = "write_daily") =>
                /\ [name |-> <<procs[p].day>>,
                    content |-> procs[p].got[Len(procs[p].got)].dailysummary[1]]
                       \in files'["daily"]
                /\ IsWrite(procs'[p].log[Len(procs'[p].log)], "daily", <<procs[p].day>>)
          /\ (WritesChecked(p) /\ procs[p].pc = "write_forecast") =>
                /\ [name |-> DateStr(procs[p].t),
                    content |-> procs[p].got[Len(procs[p].got)].forecast]
                       \in files'[SnapshotDir(procs[p].kind)]
                /\ IsWrite(procs'[p].log[Len(procs'[p].log)],
                           SnapshotDir(procs[p].kind), DateStr(procs[p].t))
    ]_vars

\* two snapshots of one clock hour in a forecast directory
TwoSnapshotsOfHour(dir) ==
    \E t \in 0..MaxNowConc : Cardinality(InHour(files, dir, t)) = 2

\* two runs are in get_day for the same day, each has sent its own history
\* request and each has written the daily file
C13_SameDayFetchedTwice == \E day \in Days : Cardinality(FetchedDay(day)) = 2

\* Both outcomes in one state.  A forecast directory holds two snapshots of one
\* hour.  daily/ holds one file and observations/ more files than one answer of
\* the server carries: a run sends at most one history request, so two runs have
\* fetched that day and both have written what they got.
C13_Witness ==
    /\ TwoSnapshotsOfHour("forecast")
    /\ Cardinality(files["daily"]) = 1
    /\ Cardinality(files["observations"]) > MaxObsConc

\* the run calls ensure_dir_exists in this step
CallsEnsure(p) ==
    /\ procs[p].pc \in {"init", "get_day", "obs_dir", "get_forecast"}
    /\ procs'[p].pc # procs[p].pc

\* the run leaves makedirs in this step
LeavesMakeDirs(p) == procs[p].pc = "makedirs" /\ procs'[p].pc # "makedirs"

\* the run has found in makedirs that the directory had appeared since its check
Raced(p, dir) == \E i \in 1..Len(procs[p].log) : procs[p].log[i] = Ev("raced", dir, <<>>)

\* C17: ensure_dir_exists never fails with FileExistsError.  Called on a directory
\* that exists it returns at once and changes nothing.  Called on one that does
\* not it goes on to makedirs, and from there it returns without error with the
\* directory in place, whether it made the directory itself or another run did
\* in between; nothing but that directory is added, and no file is touched.
C17_EnsureDirTolerant ==
    /\ [](\A p \in Runs : procs[p].err # "FileExistsError")
    /\ [][\A p \in Runs :
             /\ CallsEnsure(p) =>
                   /\ dirs' = dirs
                   /\ files' = files
                   /\ procs'[p].err = NoError
                   /\ procs'[p].pc = IF procs'[p].dir \in dirs
                                     THEN procs'[p].ret ELSE "makedirs"
             /\ LeavesMakeDirs(p) =>
                   /\ procs'[p].pc = procs[p].ret
                   /\ procs'[p].err = NoError
                   /\ procs[p].dir \in dirs'
                   /\ dirs' = dirs \cup {procs[p].dir}
                   /\ files' = files
                   /\ Raced(p, procs[p].dir) = FALSE
                   /\ Raced(p, procs[p].dir)' = (procs[p].dir \in dirs)
      ]_vars

\* a run lost the race for forecast_hourly/ and ended without an exception
C17_Witness ==
    \E p \in Runs :
        /\ procs[p].pc = "done"
        /\ procs[p].err = NoError
        /\ Raced(p, "forecast_hourly")
        /\ "forecast_hourly" \in dirs

====
